---- MODULE Spec2Model ----
(***************************************************************************)
(* The chat turn controller and event reconciler of cc-web's web client:   *)
(* useChatSession (handleSend, processQueue, handleAbort and the three     *)
(* stream callbacks), the session store it drives, the SSE transport       *)
(* adapter streamAgentQuery, and the part of the server's /agent/query     *)
(* route that stamps the agent session id on every message.                *)
(*                                                                         *)
(* JavaScript runs each handler to completion, so every action below is    *)
(* one handler (or one continuation after an await) executed atomically.   *)
(***************************************************************************)
EXTENDS Integers, Sequences, FiniteSets, TLC

\* ------------------------------------------------------------------ bounds
\* Prompts the user submits in one behaviour.
MaxPrompts == 3
\* Handlers run in one behaviour.
MaxSteps == 7
\* Calls of handleAbort in one behaviour.
MaxAborts == 1
\* Messages the streams deliver in one behaviour of the controller specification Spec.
MaxEvents == 2
\* Messages the stream delivers in one behaviour of the reconciler specification SpecR.
MaxEventsR == 5
\* Ordinary tool calls inside the task of the scenario specification SpecS.
MaxTools == 2
\* Segments in a path the agent asks for, in the tool permission specification SpecQ.
MaxPathLen == 2

\* ------------------------------------------------------------ input domains
SessionIds == {"s1", "s2"}
\* Session ids the agent engine hands out in its init message.
AgentIds == {"g1", "g2"}
\* tool_use ids ("undefined" when the message carries none).
ToolIds == {"A", "B"}
None == "undefined"

\* An optional value: <<>> is undefined/null, <<v>> is the value v.
Absent == <<>>
Present(v) == <<v>>

\* A string is a sequence of characters; "" is <<>>.  The n-th prompt the user
\* submits reads "pn", so a user message tells which submission it came from.
PromptText(n) == <<"p" \o ToString(n)>>
ErrorMessage == <<"net">>

VARIABLES
  sessions,          \* store: sessions[id].agentSessionId
  activeSessionId,   \* store: the session the hook is rendered for
  messages,          \* store: Map sessionId -> Message[]
  loadingSessionIds, \* store: Set of busy session ids
  messageQueues,     \* module-level Map sessionId -> QueuedMessage[]
  abortRef,          \* useRef: the handle of the stream opened last (its turn), 0 = null
  activeTaskRef,     \* useRef: the open task, Absent = null
  turns,             \* the handleSend invocations that passed the busy check, by prompt
  timers,            \* pending setTimeout(0) callbacks of processQueue, FIFO
  nextId,            \* per session, the number of ids crypto.randomUUID() has returned
  submitted,         \* number of prompts the user has submitted
  delivered,         \* number of messages the streams have delivered
  aborts,            \* number of handleAbort calls
  steps,             \* number of handlers that have run
  cancelled,         \* history: prompts that were queued when their session was aborted
  script,            \* SpecS: the scenario the server plays, and what is left of it
  agentCall          \* server: the tool call the agent made last, and how it was decided

vars == <<sessions, activeSessionId, messages, loadingSessionIds, messageQueues,
          abortRef, activeTaskRef, turns, timers, nextId, submitted, delivered,
          aborts, steps, cancelled, script, agentCall>>

\* -------------------------------------------------------------- JSON values
\* A JSON value that is a string, an array of content blocks, or missing.
Str(text) == [kind |-> "string", text |-> text, blocks |-> <<>>]
\* A string that JSON.parse turns into an array of content blocks.
JsonArrayStr(blocks) == [kind |-> "jsonArray", text |-> <<"[json]">>, blocks |-> blocks]
Blocks(blocks) == [kind |-> "array", text |-> <<>>, blocks |-> blocks]
Undefined == [kind |-> "undefined", text |-> <<>>, blocks |-> <<>>]

TextBlock(text) == [type |-> "text", text |-> text]
ToolUseBlock == [type |-> "tool_use", text |-> <<>>]

\* JavaScript truthiness: undefined and "" are falsy, every array is truthy.
Truthy(v) == v.kind \in {"array", "jsonArray"} \/ (v.kind = "string" /\ v.text # <<>>)

\* ------------------------------------------------------------ session store
GetMessages(msgs, s) == IF s \in DOMAIN msgs THEN msgs[s] ELSE <<>>

IsSessionLoading(loading, s) == s \in loading

SetSessionLoading(loading, s, on) == IF on THEN loading \cup {s} ELSE loading \ {s}

GetAgentSessionId(sess, s) == IF s \in DOMAIN sess THEN sess[s].agentSessionId ELSE None

SetAgentSessionId(sess, s, a) ==
  [x \in DOMAIN sess |-> IF x = s THEN [sess[x] EXCEPT !.agentSessionId = a] ELSE sess[x]]

\* crypto.randomUUID(): the n-th id made for a message of session s.  No two
\* messages share an id; <<>> stands for no id.
MessageId(s, n) == <<s, n>>

\* A message with every optional field undefined.
BlankMessage(id, role) ==
  [id |-> id, role |-> role, content |-> <<>>, endTime |-> 0, isStreaming |-> FALSE,
   toolName |-> None, toolResult |-> Undefined, isTaskLoading |-> FALSE,
   taskEndTime |-> 0, taskToolCount |-> 0, taskResult |-> Absent]

\* addMessage: the list of s (a new one when the Map has none) with m appended.
AddMessage(msgs, s, m) ==
  [x \in DOMAIN msgs \cup {s} |-> IF x = s THEN Append(GetMessages(msgs, s), m) ELSE msgs[x]]

\* The fields that hold a time.  Such a field holds the number of times it was
\* written (0 is undefined), so writing the current time adds Now to it.
Timestamps == {"endTime", "taskEndTime"}
Now == 1

\* { ...m, ...updates }
Merge(m, updates) ==
  [f \in DOMAIN m |->
     IF f \notin DOMAIN updates THEN m[f]
     ELSE IF f \in Timestamps THEN m[f] + updates[f]
     ELSE updates[f]]

\* updateMessage: the message of s with that id, if there is one, merged with updates.
UpdateMessage(msgs, s, id, updates) ==
  IF \E i \in 1..Len(GetMessages(msgs, s)) : msgs[s][i].id = id
  THEN [msgs EXCEPT ![s] = [i \in 1..Len(@) |->
                              IF @[i].id = id THEN Merge(@[i], updates) ELSE @[i]]]
  ELSE msgs

\* ------------------------------------------------------------ message queue
GetQueue(queues, s) == queues[s]

Enqueue(queues, s, q) == [queues EXCEPT ![s] = Append(@, q)]

\* Mutant: abort leaves the queue as it is.
ClearQueueKeepsEntries(queues, s) == queues

\* messageQueues.delete(sessionId)
ClearQueue(queues, s) == [queues EXCEPT ![s] = <<>>]

\* processQueue: whether the head of s's queue is taken now.
ShouldDequeue(queues, loading, s) ==
  Len(GetQueue(queues, s)) > 0 /\ ~IsSessionLoading(loading, s)

\* processQueue: the queues after queue.shift().
QueuesAfterProcess(queues, loading, s) ==
  IF ShouldDequeue(queues, loading, s) THEN [queues EXCEPT ![s] = Tail(@)] ELSE queues

\* processQueue: the timers after setTimeout(() => handleSend(nextMessage...), 0);
\* the callback keeps the closure c of the render that created processQueue.
TimersAfterProcess(tm, queues, loading, s, c) ==
  IF ShouldDequeue(queues, loading, s)
  THEN Append(tm, [closure |-> c, msg |-> Head(GetQueue(queues, s))])
  ELSE tm

\* ------------------------------------------------------------------- turns
\* What a render of the hook closes over.
Closure(s, sess) == [sessionId |-> s, agentSessionId |-> GetAgentSessionId(sess, s)]

\* No message was handled yet.
NoMessage ==
  [type |-> "", subtype |-> None, toolName |-> None, toolId |-> None,
   toolResult |-> Undefined, content |-> Undefined, agentSessionId |-> None]

NewTurn(c, q) ==
  [sessionId |-> c.sessionId, agentSessionId |-> c.agentSessionId,
   prompt |-> q.prompt, files |-> q.files,
   phase |-> "upload",           \* "upload" | "stream" | "closed"
   endedBy |-> "",               \* what closed it
   assistantMessageId |-> <<>>,
   fullContent |-> <<>>,
   captured |-> c.agentSessionId, \* server: capturedAgentSessionId
   handled |-> 0,                \* history: the messages onMessage handled
   abortRequested |-> FALSE,     \* history: handleAbort ran for its session meanwhile
   gotResult |-> FALSE,          \* history: a result message was handled
   contents |-> <<>>,            \* history: the content of every assistant message handled
   last |-> "",                  \* history: the type of the message handled last
   event |-> NoMessage,          \* history: the message handled last
   tasks |-> {}]                 \* history: the ids of the task messages it appended

\* A turn that passed the busy check and whose upload or stream is still going.
InFlight(t) == turns[t].phase \in {"upload", "stream"}

TurnsInFlight(s) == {t \in DOMAIN turns : turns[t].sessionId = s /\ InFlight(t)}

UserMessage(id, prompt) == [BlankMessage(id, "user") EXCEPT !.content = PromptText(prompt)]

Placeholder(id) == [BlankMessage(id, "assistant") EXCEPT !.isStreaming = TRUE]

\* Mutant: the failure is reported in an assistant message.
SystemMessageAsAssistant(id, text) == [BlankMessage(id, "assistant") EXCEPT !.content = text]

SystemMessage(id, text) == [BlankMessage(id, "system") EXCEPT !.content = text]

\* handleSend from "Add user message" to "abortRef.current = stream": the part
\* that runs once the upload (if any) has succeeded.  rec is the turn's record;
\* the turn is named by its prompt.
OpenStream(rec) ==
  LET s == rec.sessionId
      userId == MessageId(s, nextId[s] + 1)
      assistantMessageId == MessageId(s, nextId[s] + 2)
      started == [rec EXCEPT !.phase = "stream", !.assistantMessageId = assistantMessageId]
  IN /\ messages' = AddMessage(AddMessage(messages, s, UserMessage(userId, rec.prompt)),
                               s, Placeholder(assistantMessageId))
     /\ nextId' = [nextId EXCEPT ![s] = @ + 2]
     /\ turns' = (rec.prompt :> started) @@ turns
     /\ abortRef' = rec.prompt

\* Mutant: the busy check comes after the turn-start reset of activeTaskRef.
QueueRequestAfterReset(c, q) ==
  /\ messageQueues' = Enqueue(messageQueues, c.sessionId, q)
  /\ activeTaskRef' = Absent
  /\ UNCHANGED <<messages, loadingSessionIds, abortRef, turns, nextId>>

\* handleSend on a busy session: the request goes to the tail of the queue.
QueueRequest(c, q) ==
  /\ messageQueues' = Enqueue(messageQueues, c.sessionId, q)
  /\ UNCHANGED <<messages, loadingSessionIds, abortRef, activeTaskRef, turns, nextId>>

\* handleSend, up to its first await (the upload) or, without files, to its end.
HandleSend(c, q) ==
  LET s == c.sessionId IN
  /\ IF IsSessionLoading(loadingSessionIds, s)
     THEN QueueRequest(c, q)
     ELSE /\ loadingSessionIds' = SetSessionLoading(loadingSessionIds, s, TRUE)
          /\ activeTaskRef' = Absent
          /\ UNCHANGED messageQueues
          /\ IF q.files
             THEN /\ turns' = (q.prompt :> NewTurn(c, q)) @@ turns
                  /\ UNCHANGED <<messages, nextId, abortRef>>
             ELSE OpenStream(NewTurn(c, q))
  /\ UNCHANGED <<sessions, activeSessionId, delivered, aborts, cancelled>>

\* The user submits the next prompt in the session on screen.
UserSend(files) ==
  /\ submitted < MaxPrompts
  /\ submitted' = submitted + 1
  /\ HandleSend(Closure(activeSessionId, sessions),
                [prompt |-> submitted + 1, files |-> files])
  /\ UNCHANGED timers

\* The setTimeout(0) callback processQueue scheduled first runs.
TimerFires ==
  /\ timers # <<>>
  /\ timers' = Tail(timers)
  /\ HandleSend(Head(timers).closure, Head(timers).msg)
  /\ UNCHANGED submitted

\* api.uploadAttachments resolved: handleSend goes on after its await.
UploadDone(t) ==
  /\ turns[t].phase = "upload"
  /\ OpenStream(turns[t])
  /\ UNCHANGED <<sessions, activeSessionId, loadingSessionIds, messageQueues,
                 activeTaskRef, timers, submitted, delivered, aborts, cancelled>>

\* api.uploadAttachments rejected: the catch block of handleSend.
UploadFailed(t) ==
  LET s == turns[t].sessionId
      c == [sessionId |-> s, agentSessionId |-> turns[t].agentSessionId]
      loading == SetSessionLoading(loadingSessionIds, s, FALSE)
  IN /\ turns[t].phase = "upload"
     /\ messages' = AddMessage(messages, s, SystemMessage(MessageId(s, nextId[s] + 1),
                                                         <<"File upload failed: ">> \o ErrorMessage))
     /\ nextId' = [nextId EXCEPT ![s] = @ + 1]
     /\ loadingSessionIds' = loading
     /\ messageQueues' = QueuesAfterProcess(messageQueues, loading, s)
     /\ timers' = TimersAfterProcess(timers, messageQueues, loading, s, c)
     /\ turns' = [turns EXCEPT ![t].phase = "closed", ![t].endedBy = "uploadFailed"]
     /\ UNCHANGED <<sessions, activeSessionId, abortRef, activeTaskRef, submitted,
                    delivered, aborts, cancelled>>

\* -------------------------------------------------------- stream messages
\* blocks.filter(b => b.type === "text").map(b => b.text).join("")
RECURSIVE JoinText(_)
JoinText(blocks) ==
  IF blocks = <<>> THEN <<>>
  ELSE (IF Head(blocks).type = "text" THEN Head(blocks).text ELSE <<>>) \o JoinText(Tail(blocks))

ExtractTextFromResult(v) ==
  CASE v.kind = "string" -> v.text
    [] v.kind \in {"jsonArray", "array"} -> JoinText(v.blocks)
    [] OTHER -> <<"undefined">>

Message(type) ==
  [type |-> type, subtype |-> None, toolName |-> None, toolId |-> None,
   toolResult |-> Undefined, content |-> Undefined, agentSessionId |-> None]

InitMessage(a) == [Message("system") EXCEPT !.subtype = "init", !.agentSessionId = a]
ToolCall(name, id) == [Message("tool_call") EXCEPT !.toolName = name, !.toolId = id]
ToolResult(id, v) == [Message("tool_result") EXCEPT !.toolId = id, !.toolResult = v]
Assistant(v) == [Message("assistant") EXCEPT !.content = v]
ResultMessage == Message("result")
ErrorReport == Message("error")

\* The route's loop: an init message replaces capturedAgentSessionId, and every
\* message leaves with the captured id on it.
ServerCaptured(captured, msg) ==
  IF msg.type = "system" /\ msg.subtype = "init" /\ msg.agentSessionId # None
  THEN msg.agentSessionId ELSE captured

ServerStamp(captured, msg) == [msg EXCEPT !.agentSessionId = ServerCaptured(captured, msg)]

\* ------------------------------------------------------- event reconciler
\* The reconciler works on st = [msgs, task, nid, full]: the store's messages,
\* activeTaskRef.current, the number of ids made for the session and the turn's
\* fullContent.

\* Mutant: completing a task also gives it an (empty) result text.
CompleteTaskWithResult(count) ==
  [isTaskLoading |-> FALSE, taskEndTime |-> Now, taskToolCount |-> count,
   taskResult |-> Present(<<>>)]

\* { isTaskLoading: false, taskEndTime: Date.now(), taskToolCount: count }
CompleteTask(count) ==
  [isTaskLoading |-> FALSE, taskEndTime |-> Now, taskToolCount |-> count]

\* Mutant: the task is stamped but left loading.
StopTaskLeavesLoading == [taskEndTime |-> Now]

\* { isTaskLoading: false, taskEndTime: Date.now() }
StopTask == [isTaskLoading |-> FALSE, taskEndTime |-> Now]

\* Mutant: closing the placeholder also empties it.
FinalizeClearsContent == [isStreaming |-> FALSE, endTime |-> Now, content |-> <<>>]

\* { isStreaming: false, endTime: new Date() }
Finalize == [isStreaming |-> FALSE, endTime |-> Now]

\* Mutant: the reference is kept after the task was completed.
CompleteActiveTaskKeepsRef(st, s, clear) ==
  IF st.task = Absent THEN st
  ELSE [st EXCEPT !.msgs = UpdateMessage(st.msgs, s, st.task[1].messageId,
                                         CompleteTask(st.task[1].toolCount))]

\* "Complete any existing task" with its count; clear says whether the ref is reset.
CompleteActiveTask(st, s, clear) ==
  IF st.task = Absent THEN st
  ELSE [st EXCEPT !.msgs = UpdateMessage(st.msgs, s, st.task[1].messageId,
                                         CompleteTask(st.task[1].toolCount)),
                  !.task = IF clear THEN Absent ELSE @]

\* "Complete any active task" of onError, onDone and handleAbort.
StopActiveTask(msgs, task, s) ==
  IF task = Absent THEN msgs
  ELSE UpdateMessage(msgs, s, task[1].messageId, StopTask)

TaskMessage(id) == [BlankMessage(id, "task") EXCEPT !.isTaskLoading = TRUE]

ToolMessage(id, name) == [BlankMessage(id, "tool") EXCEPT !.toolName = name]

\* tool_call named Task: finish the open task, append a task message, track it.
OnTaskCall(st, s, msg) ==
  LET done == CompleteActiveTask(st, s, FALSE) IN
  [done EXCEPT !.msgs = AddMessage(done.msgs, s, TaskMessage(MessageId(s, st.nid + 1))),
               !.nid = st.nid + 1,
               !.task = Present([messageId |-> MessageId(s, st.nid + 1), toolCount |-> 0,
                                 toolId |-> msg.toolId])]

\* any other tool_call: count it on the open task, append a tool message.
OnToolCall(st, s, msg) ==
  LET counted ==
        IF st.task = Absent THEN st
        ELSE [st EXCEPT !.task = Present([st.task[1] EXCEPT !.toolCount = @ + 1]),
                        !.msgs = UpdateMessage(st.msgs, s, st.task[1].messageId,
                                   [taskToolCount |-> st.task[1].toolCount + 1])]
  IN [counted EXCEPT !.msgs = AddMessage(counted.msgs, s,
                                         ToolMessage(MessageId(s, st.nid + 1), msg.toolName)),
                     !.nid = st.nid + 1]

\* Mutant: the oldest tool message without a result is taken.
FirstToolMessage(list) ==
  LET open == {i \in 1..Len(list) : list[i].role = "tool" /\ ~Truthy(list[i].toolResult)}
  IN IF open = {} THEN 0 ELSE CHOOSE i \in open : \A j \in open : i <= j

\* [...currentMessages].reverse().find(m => m.role === "tool" && !m.toolResult):
\* the index of the newest such message, 0 when there is none.
LastToolMessage(list) ==
  LET open == {i \in 1..Len(list) : list[i].role = "tool" /\ ~Truthy(list[i].toolResult)}
  IN IF open = {} THEN 0 ELSE CHOOSE i \in open : \A j \in open : j <= i

\* tool_result: the open task's own result, else the newest unresolved tool message.
OnToolResult(st, s, msg) ==
  IF st.task # Absent /\ msg.toolId # None /\ st.task[1].toolId = msg.toolId
  THEN [st EXCEPT !.msgs = UpdateMessage(st.msgs, s, st.task[1].messageId,
                     [isTaskLoading |-> FALSE, taskEndTime |-> Now,
                      taskToolCount |-> st.task[1].toolCount,
                      taskResult |-> Present(ExtractTextFromResult(msg.toolResult))]),
                  !.task = Absent]
  ELSE LET list == GetMessages(st.msgs, s)
           k == LastToolMessage(list)
       IN IF k = 0 THEN st
          ELSE [st EXCEPT !.msgs = UpdateMessage(st.msgs, s, list[k].id,
                              [toolResult |-> msg.toolResult])]

\* The text an assistant message adds to fullContent.
TextContent(v) ==
  CASE v.kind = "array" -> JoinText(v.blocks)
    [] v.kind \in {"string", "jsonArray"} -> v.text
    [] OTHER -> <<>>

\* Mutant: the latest text replaces what was accumulated.
AccumulateReplaces(full, text) == text

\* fullContent += textContent
Accumulate(full, text) == full \o text

\* assistant with content: finish the open task, grow the placeholder's content.
OnAssistant(st, s, msg, placeholder) ==
  LET done == CompleteActiveTask(st, s, TRUE)
      full == Accumulate(st.full, TextContent(msg.content))
  IN [done EXCEPT !.full = full,
                  !.msgs = UpdateMessage(done.msgs, s, placeholder,
                                         [content |-> full])]

\* result: finish the open task, close the placeholder.
OnResult(st, s, placeholder) ==
  LET done == CompleteActiveTask(st, s, TRUE) IN
  [done EXCEPT !.msgs = UpdateMessage(done.msgs, s, placeholder, Finalize)]

\* Mutant: a message of any other type closes the placeholder as a result does.
ReconcileOthersAsResult(st, s, msg, placeholder) ==
  CASE msg.type = "tool_call" /\ msg.toolName = "Task" -> OnTaskCall(st, s, msg)
    [] msg.type = "tool_call" /\ msg.toolName # "Task" -> OnToolCall(st, s, msg)
    [] msg.type = "tool_result" -> OnToolResult(st, s, msg)
    [] msg.type = "assistant" /\ Truthy(msg.content) -> OnAssistant(st, s, msg, placeholder)
    [] msg.type = "assistant" -> st
    [] OTHER -> OnResult(st, s, placeholder)

\* The onMessage callback, after the agent session id capture.
Reconcile(st, s, msg, placeholder) ==
  CASE msg.type = "tool_call" /\ msg.toolName = "Task" -> OnTaskCall(st, s, msg)
    [] msg.type = "tool_call" /\ msg.toolName # "Task" -> OnToolCall(st, s, msg)
    [] msg.type = "tool_result" -> OnToolResult(st, s, msg)
    [] msg.type = "assistant" /\ Truthy(msg.content) -> OnAssistant(st, s, msg, placeholder)
    [] msg.type = "result" -> OnResult(st, s, placeholder)
    [] OTHER -> st

\* if (message.agentSessionId && !agentSessionId && sessionId) setAgentSessionId(...)
CaptureAgentSessionId(sess, s, closureId, msg) ==
  IF msg.agentSessionId # None /\ closureId = None
  THEN SetAgentSessionId(sess, s, msg.agentSessionId)
  ELSE sess

\* The stream of turn t can still call back: it is open and was not aborted.
StreamOpen(t) == turns[t].phase = "stream"

\* The server sends raw, the transport parses the data line, onMessage handles it.
OnMessage(t, raw) ==
  LET rec == turns[t]
      s == rec.sessionId
      msg == ServerStamp(rec.captured, raw)
      st == Reconcile([msgs |-> messages, task |-> activeTaskRef, nid |-> nextId[s],
                       full |-> rec.fullContent], s, msg, rec.assistantMessageId)
  IN /\ StreamOpen(t)
     /\ sessions' = CaptureAgentSessionId(sessions, s, rec.agentSessionId, msg)
     /\ messages' = st.msgs
     /\ activeTaskRef' = st.task
     /\ nextId' = [nextId EXCEPT ![s] = st.nid]
     /\ delivered' = delivered + 1
     /\ turns' = [turns EXCEPT ![t].fullContent = st.full,
                               ![t].captured = msg.agentSessionId,
                               ![t].handled = @ + 1,
                               ![t].gotResult = @ \/ msg.type = "result",
                               ![t].contents = IF msg.type = "assistant"
                                               THEN Append(@, msg.content) ELSE @,
                               ![t].last = msg.type,
                               ![t].event = msg,
                               ![t].tasks = IF msg.type = "tool_call" /\ msg.toolName = "Task"
                                            THEN @ \cup {MessageId(s, nextId[s] + 1)} ELSE @]
     /\ UNCHANGED <<activeSessionId, loadingSessionIds, messageQueues, abortRef, timers,
                    submitted, aborts, cancelled>>

\* The transport reads a data line that JSON.parse rejects: the error is
\* caught, no callback runs and the loop goes on with the next line.
ParseFails(t) ==
  /\ StreamOpen(t)
  /\ delivered' = delivered + 1
  /\ turns' = [turns EXCEPT ![t].last = "malformed"]
  /\ UNCHANGED <<sessions, activeSessionId, messages, loadingSessionIds, messageQueues,
                 abortRef, activeTaskRef, timers, nextId, submitted, aborts, cancelled>>

\* The placeholder update of onError.
FailWith(text) == [content |-> <<"Error: ">> \o text, isStreaming |-> FALSE, endTime |-> Now]

\* The onDone callback: the transport read the [DONE] line.
OnDone(t) ==
  LET rec == turns[t]
      s == rec.sessionId
      c == [sessionId |-> s, agentSessionId |-> rec.agentSessionId]
      loading == SetSessionLoading(loadingSessionIds, s, FALSE)
  IN /\ StreamOpen(t)
     /\ messages' = UpdateMessage(StopActiveTask(messages, activeTaskRef, s), s,
                                  rec.assistantMessageId, Finalize)
     /\ activeTaskRef' = Absent
     /\ loadingSessionIds' = loading
     /\ abortRef' = 0
     /\ messageQueues' = QueuesAfterProcess(messageQueues, loading, s)
     /\ timers' = TimersAfterProcess(timers, messageQueues, loading, s, c)
     /\ turns' = [turns EXCEPT ![t].phase = "closed", ![t].endedBy = "done"]
     /\ UNCHANGED <<sessions, activeSessionId, nextId, submitted, delivered, aborts, cancelled>>

\* The onError callback: fetch or reader.read() failed with something other than
\* an AbortError, or the response was not ok.
OnError(t) ==
  LET rec == turns[t]
      s == rec.sessionId
      c == [sessionId |-> s, agentSessionId |-> rec.agentSessionId]
      loading == SetSessionLoading(loadingSessionIds, s, FALSE)
  IN /\ StreamOpen(t)
     /\ messages' = UpdateMessage(StopActiveTask(messages, activeTaskRef, s), s,
                                  rec.assistantMessageId, FailWith(ErrorMessage))
     /\ activeTaskRef' = Absent
     /\ loadingSessionIds' = loading
     /\ messageQueues' = QueuesAfterProcess(messageQueues, loading, s)
     /\ timers' = TimersAfterProcess(timers, messageQueues, loading, s, c)
     /\ turns' = [turns EXCEPT ![t].phase = "closed", ![t].endedBy = "error"]
     /\ UNCHANGED <<sessions, activeSessionId, abortRef, nextId, submitted, delivered,
                    aborts, cancelled>>

\* reader.read() reports done before any [DONE] line: the loop breaks and the
\* transport calls nothing.
BodyEnds(t) ==
  /\ StreamOpen(t)
  /\ turns' = [turns EXCEPT ![t].phase = "closed", ![t].endedBy = "eof"]
  /\ UNCHANGED <<sessions, activeSessionId, messages, loadingSessionIds, messageQueues,
                 abortRef, activeTaskRef, timers, nextId, submitted, delivered, aborts, cancelled>>

\* abortRef.current?.abort(): the fetch of the turn whose handle the ref holds is
\* aborted; its AbortError is swallowed, so that stream calls back no more.
AbortHandle(ts, ref) ==
  IF ref # 0 /\ ts[ref].phase = "stream"
  THEN [ts EXCEPT ![ref].phase = "closed", ![ref].endedBy = "abort"]
  ELSE ts

\* handleAbort, called for the session on screen (None when there is none).
HandleAbort ==
  LET s == activeSessionId
      asked == TurnsInFlight(s)
      stopped == AbortHandle(turns, abortRef)
  IN /\ messages' = IF s = None THEN messages ELSE StopActiveTask(messages, activeTaskRef, s)
     /\ activeTaskRef' = IF s = None THEN activeTaskRef ELSE Absent
     /\ turns' = [t \in DOMAIN turns |->
                    [stopped[t] EXCEPT !.abortRequested = @ \/ t \in asked]]
     /\ loadingSessionIds' = IF s = None THEN loadingSessionIds
                             ELSE SetSessionLoading(loadingSessionIds, s, FALSE)
     /\ messageQueues' = IF s = None THEN messageQueues ELSE ClearQueue(messageQueues, s)
     /\ cancelled' = IF asked = {} THEN cancelled
                     ELSE cancelled \cup {GetQueue(messageQueues, s)[i].prompt :
                                            i \in 1..Len(GetQueue(messageQueues, s))}
     /\ aborts' = aborts + 1
     /\ UNCHANGED <<sessions, activeSessionId, abortRef, timers, nextId, submitted, delivered>>

\* setActiveSession: the hook re-renders for another session.
SetActiveSession(s) ==
  /\ s # activeSessionId
  /\ activeSessionId' = s
  /\ UNCHANGED <<sessions, messages, loadingSessionIds, messageQueues, abortRef,
                 activeTaskRef, turns, timers, nextId, submitted, delivered, aborts, cancelled>>

\* The sessions array keeps the order of creation: the place of each session.
SessionIndex == ("s1" :> 1) @@ ("s2" :> 2)

SessionOrder(x, y) == SessionIndex[x] <= SessionIndex[y]

\* deleteSession, once api.deleteSession resolved: the session and its message
\* list leave the store; if it was on screen, the first session left (or none)
\* comes on screen.
DeleteSession(id) ==
  LET newSessions == [x \in DOMAIN sessions \ {id} |-> sessions[x]] IN
  /\ id \in DOMAIN sessions
  /\ sessions' = newSessions
  /\ messages' = [x \in DOMAIN messages \ {id} |-> messages[x]]
  /\ activeSessionId' =
       IF activeSessionId # id THEN activeSessionId
       ELSE IF DOMAIN newSessions = {} THEN None
       ELSE CHOOSE x \in DOMAIN newSessions : \A y \in DOMAIN newSessions : SessionOrder(x, y)
  /\ UNCHANGED <<loadingSessionIds, messageQueues, abortRef, activeTaskRef, turns, timers,
                 nextId, submitted, delivered, aborts, cancelled>>

\* ------------------------------------------------------ tool permissions
\* A path is [abs, segs]: whether it starts at the root, and its segments.
\* The server's working directory is /w.
Cwd == [abs |-> TRUE, segs |-> <<"w">>]

Segments == {"..", "w", "f"}

\* path.resolve's normalisation: "." is dropped, ".." drops the segment before
\* it (at the root it is dropped itself).
RECURSIVE Normalize(_, _)
Normalize(done, rest) ==
  IF rest = <<>> THEN done
  ELSE IF Head(rest) = "." THEN Normalize(done, Tail(rest))
  ELSE IF Head(rest) = ".."
       THEN Normalize(IF done = <<>> THEN <<>> ELSE SubSeq(done, 1, Len(done) - 1), Tail(rest))
  ELSE Normalize(Append(done, Head(rest)), Tail(rest))

\* path.resolve(basePath, requestedPath), basePath absolute.
Resolve(base, requested) ==
  IF requested.abs THEN Normalize(<<>>, requested.segs)
  ELSE Normalize(<<>>, base.segs \o requested.segs)

\* resolved.startsWith(normalizedBase + path.sep)
StartsWithBase(resolved, normalizedBase) ==
  /\ normalizedBase # <<>>
  /\ Len(resolved) > Len(normalizedBase)
  /\ SubSeq(resolved, 1, Len(normalizedBase)) = normalizedBase

IsPathAllowed(requestedPath, basePath) ==
  LET resolved == Resolve(basePath, requestedPath)
      normalizedBase == Normalize(<<>>, basePath.segs)
  IN StartsWithBase(resolved, normalizedBase) \/ resolved = normalizedBase

\* (x as string) || null: a missing or empty string is null.
OrNull(x) == IF x = Absent \/ (~x[1].abs /\ x[1].segs = <<>>) THEN Absent ELSE x

GetPathFromToolInput(toolName, input) ==
  CASE toolName \in {"Read", "Write", "Edit"} -> OrNull(input.file_path)
    [] toolName \in {"Glob", "Grep"} -> OrNull(input.path)
    [] OTHER -> Absent

ALLOWED_TOOLS == {"Read", "Write", "Edit", "Bash", "Glob", "Grep", "Task", "TodoWrite"}

\* The canUseTool callback createSandboxedToolChecker(basePath) returns.
SandboxedToolChecker(basePath, toolName, input) ==
  LET filePath == GetPathFromToolInput(toolName, input) IN
  IF toolName \notin ALLOWED_TOOLS THEN "deny"
  ELSE IF filePath # Absent /\ ~IsPathAllowed(filePath[1], basePath) THEN "deny"
  ELSE "allow"

\* The options executeQuery hands to the engine's query(): no canUseTool callback.
SdkOptions ==
  [allowedTools |-> ALLOWED_TOOLS, permissionMode |-> "bypassPermissions",
   cwd |-> Cwd, canUseTool |-> FALSE]

\* How the engine decides a tool call under the options: a canUseTool callback
\* decides if there is one; without one, only the listed tools are available,
\* and bypassPermissions lets them run without any check of their input.
EngineDecision(options, toolName, input) ==
  IF options.canUseTool THEN {SandboxedToolChecker(options.cwd, toolName, input)}
  ELSE IF toolName \notin options.allowedTools THEN {"deny"}
  ELSE IF options.permissionMode = "bypassPermissions" THEN {"allow"}
  ELSE {"allow", "deny"}

\* The tools the agent may ask for, and their inputs.
ToolNames == ALLOWED_TOOLS \cup {"WebFetch"}

Paths ==
  {[abs |-> a, segs |-> segs] :
     a \in BOOLEAN, segs \in UNION {[1..n -> Segments] : n \in 0..MaxPathLen}}

ToolInputs ==
  {[file_path |-> Present(q), path |-> Absent] : q \in Paths}
    \cup {[file_path |-> Absent, path |-> Present(q)] : q \in Paths}
    \cup {[file_path |-> Absent, path |-> Absent]}

\* The agent, run by executeQuery, makes a tool call.
AgentToolCall(toolName, input) ==
  /\ \E behavior \in EngineDecision(SdkOptions, toolName, input) :
       agentCall' = [tool |-> toolName, input |-> input, behavior |-> behavior]
  /\ UNCHANGED <<sessions, activeSessionId, messages, loadingSessionIds, messageQueues,
                 abortRef, activeTaskRef, turns, timers, nextId, submitted, delivered,
                 aborts, steps, cancelled, script>>

\* ------------------------------------------------------- specifications
\* No tool call was made.
NoCall == [tool |-> None, input |-> [file_path |-> Absent, path |-> Absent], behavior |-> None]

\* No scenario is played.
NoScript == [k |-> 0, results |-> <<>>, payload |-> Undefined, todo |-> <<>>]

\* Two sessions exist, the first is on screen, nothing has been sent.
Init ==
  /\ sessions = [s \in SessionIds |-> [agentSessionId |-> None]]
  /\ activeSessionId = "s1"
  /\ messages = <<>>
  /\ loadingSessionIds = {}
  /\ messageQueues = [s \in SessionIds |-> <<>>]
  /\ abortRef = 0
  /\ activeTaskRef = Absent
  /\ turns = <<>>
  /\ timers = <<>>
  /\ nextId = [s \in SessionIds |-> 0]
  /\ submitted = 0
  /\ delivered = 0
  /\ aborts = 0
  /\ steps = 0
  /\ cancelled = {}
  /\ script = NoScript
  /\ agentCall = NoCall

\* The messages a stream delivers in the controller specification.
ControlMessages == {ToolCall("Task", "A"), Assistant(Str(<<"a">>)), ResultMessage}

Turns == DOMAIN turns

\* The agent session ids in use: stored on a session, sent as a resume id or
\* captured by a route.
Issued ==
  ({sessions[s].agentSessionId : s \in DOMAIN sessions}
     \cup {turns[t].agentSessionId : t \in DOMAIN turns}
     \cup {turns[t].captured : t \in DOMAIN turns}) \ {None}

\* The init message the engine opens the run of turn t with: it carries the id
\* the request asked to resume, or a new id when the request named none.
EngineInit(t) ==
  IF turns[t].handled > 0 THEN {}
  ELSE IF turns[t].agentSessionId # None THEN {InitMessage(turns[t].agentSessionId)}
  ELSE {InitMessage(a) : a \in AgentIds \ Issued}

\* One more handler runs.
Step == steps < MaxSteps /\ steps' = steps + 1 /\ UNCHANGED <<script, agentCall>>

Next ==
  \/ \E files \in BOOLEAN : Step /\ UserSend(files)
  \/ Step /\ TimerFires
  \/ \E t \in Turns : Step /\ UploadDone(t)
  \/ \E t \in Turns : Step /\ UploadFailed(t)
  \/ \E t \in Turns : \E raw \in ControlMessages \cup EngineInit(t) :
        Step /\ delivered < MaxEvents /\ OnMessage(t, raw)
  \/ \E t \in Turns : Step /\ OnDone(t)
  \/ \E t \in Turns : Step /\ OnError(t)
  \/ \E t \in Turns : Step /\ BodyEnds(t)
  \/ Step /\ aborts < MaxAborts /\ HandleAbort
  \/ \E s \in SessionIds : Step /\ SetActiveSession(s)

Spec == Init /\ [][Next]_vars

\* The reconciler on its own: the state right after handleSend("p1") on a fresh
\* session, then whatever one stream can deliver.
AfterFirstSend ==
  /\ sessions = [s \in SessionIds |-> [agentSessionId |-> None]]
  /\ activeSessionId = "s1"
  /\ messages = ("s1" :> <<UserMessage(MessageId("s1", 1), 1), Placeholder(MessageId("s1", 2))>>)
  /\ loadingSessionIds = {"s1"}
  /\ messageQueues = [s \in SessionIds |-> <<>>]
  /\ abortRef = 1
  /\ activeTaskRef = Absent
  /\ turns = (1 :> [NewTurn(Closure("s1", sessions), [prompt |-> 1, files |-> FALSE])
                      EXCEPT !.phase = "stream", !.assistantMessageId = MessageId("s1", 2)])
  /\ timers = <<>>
  /\ nextId = [s \in SessionIds |-> IF s = "s1" THEN 2 ELSE 0]
  /\ submitted = 1
  /\ delivered = 0
  /\ aborts = 0
  /\ steps = 1
  /\ cancelled = {}

\* The messages the stream delivers in the reconciler specification.
ReconcilerMessages ==
  {InitMessage("g1"),
   ToolCall("Task", "A"), ToolCall("Read", "B"),
   ToolResult("A", Str(<<"x">>)), ToolResult("B", Str(<<>>)), ToolResult("B", Str(<<"y">>)),
   Assistant(Str(<<"a">>)), Assistant(Blocks(<<ToolUseBlock, TextBlock(<<"b">>)>>)),
   ResultMessage, ErrorReport}

NextR ==
  \/ \E t \in Turns, raw \in ReconcilerMessages :
        delivered < MaxEventsR /\ OnMessage(t, raw) /\ UNCHANGED <<steps, script, agentCall>>
  \/ \E t \in Turns :
        delivered < MaxEventsR /\ ParseFails(t) /\ UNCHANGED <<steps, script, agentCall>>
  \/ \E t \in Turns : OnDone(t) /\ UNCHANGED <<steps, script, agentCall>>
  \/ \E t \in Turns : OnError(t) /\ UNCHANGED <<steps, script, agentCall>>
  \/ \E t \in Turns : BodyEnds(t) /\ UNCHANGED <<steps, script, agentCall>>
  \/ aborts < MaxAborts /\ HandleAbort /\ UNCHANGED <<steps, script, agentCall>>

InitR == AfterFirstSend /\ script = NoScript /\ agentCall = NoCall

SpecR == InitR /\ [][NextR]_vars

\* The transport stops delivering: it reads the done marker, fails with an
\* error, or finds the body ended.
StreamStops ==
  \E t \in Turns : (OnDone(t) \/ OnError(t) \/ BodyEnds(t)) /\ UNCHANGED <<steps, script, agentCall>>

\* The reconciler specification with a transport that stops in the end.
SpecRFair == SpecR /\ WF_vars(StreamStops)

\* The route stops sending after a result or an error message; what follows
\* is the done marker, unless reading fails first.
RouteSends(t) == turns[t].event.type \notin {"result", "error"}

\* The reconciler specification behind the route of this server.
NextRoute ==
  \/ \E t \in Turns, raw \in ReconcilerMessages :
        /\ delivered < MaxEventsR /\ RouteSends(t)
        /\ OnMessage(t, raw) /\ UNCHANGED <<steps, script, agentCall>>
  \/ \E t \in Turns : OnDone(t) /\ UNCHANGED <<steps, script, agentCall>>
  \/ \E t \in Turns : OnError(t) /\ UNCHANGED <<steps, script, agentCall>>

SpecRoute == InitR /\ [][NextRoute]_vars

\* The reconciler specification with sessions being deleted meanwhile.
NextD ==
  \/ NextR
  \/ \E id \in SessionIds : DeleteSession(id) /\ UNCHANGED <<steps, script, agentCall>>

SpecD == InitR /\ [][NextD]_vars

\* The tool calls of a query.
NextQ == \E toolName \in ToolNames, input \in ToolInputs : AgentToolCall(toolName, input)

SpecQ == Init /\ [][NextQ]_vars

\* The task scenario: one turn whose stream delivers a Task call, k ordinary
\* tool calls each followed by its result, the task's result and the result
\* message, and then reports done.
NestedPayloads == {Str(<<>>), Str(<<"y">>)}

TaskPayloads ==
  {Str(<<"x">>), Str(<<>>),
   JsonArrayStr(<<TextBlock(<<"f">>), ToolUseBlock, TextBlock(<<"g">>)>>)}

\* The tool_use id of the i-th ordinary tool call.
NestedToolId(i) == "B" \o ToString(i)

RECURSIVE NestedEvents(_, _)
NestedEvents(results, i) ==
  IF i > Len(results) THEN <<>>
  ELSE <<ToolCall("Read", NestedToolId(i)), ToolResult(NestedToolId(i), results[i])>>
         \o NestedEvents(results, i + 1)

ScriptEvents(results, payload) ==
  <<ToolCall("Task", "A")>> \o NestedEvents(results, 1)
    \o <<ToolResult("A", payload), ResultMessage>>

Scripts ==
  {[k |-> Len(results), results |-> results, payload |-> payload,
    todo |-> ScriptEvents(results, payload)] :
     results \in UNION {[1..n -> NestedPayloads] : n \in 0..MaxTools},
     payload \in TaskPayloads}

InitS == AfterFirstSend /\ script \in Scripts /\ agentCall = NoCall

\* The stream delivers the next message of the scenario.
Deliver(t) ==
  /\ script.todo # <<>>
  /\ OnMessage(t, Head(script.todo))
  /\ script' = [script EXCEPT !.todo = Tail(@)]
  /\ UNCHANGED <<steps, agentCall>>

NextS ==
  \/ \E t \in Turns : Deliver(t)
  \/ \E t \in Turns : script.todo = <<>> /\ OnDone(t) /\ UNCHANGED <<steps, script, agentCall>>

SpecS == InitS /\ [][NextS]_vars

\* Tool calls side by side: the engine runs a Task, a Read and a Grep, each
\* under its own tool_use id, answers each with its own payload, and may say
\* something in between.
CorrelationMessages ==
  {ToolCall("Task", "A"), ToolCall("Read", "B"), ToolCall("Grep", "C"),
   ToolResult("A", Str(<<"x">>)), ToolResult("B", Str(<<"y">>)), ToolResult("C", Str(<<"z">>)),
   Assistant(Str(<<"a">>))}

\* What the engine can send: no message twice, and the result of a tool only
\* after its call.
WellFormed(todo) ==
  /\ \A i, j \in 1..Len(todo) : i # j => todo[i] # todo[j]
  /\ \A j \in 1..Len(todo) :
       todo[j].type = "tool_result" =>
         \E i \in 1..(j - 1) : todo[i].type = "tool_call" /\ todo[i].toolId = todo[j].toolId

CorrelationScripts ==
  {[k |-> 0, results |-> <<>>, payload |-> Undefined, todo |-> todo] :
     todo \in {q \in UNION {[1..n -> CorrelationMessages] : n \in 1..MaxEventsR} : WellFormed(q)}}

InitC == AfterFirstSend /\ script \in CorrelationScripts /\ agentCall = NoCall

SpecC == InitC /\ [][NextS]_vars

\* ------------------------------------------------------------------ claims
MessagesOf(s) == GetMessages(messages, s)

\* The positions of turn t's assistant placeholder in its session's list.
PlaceholderAt(t) ==
  {i \in 1..Len(MessagesOf(turns[t].sessionId)) :
     MessagesOf(turns[t].sessionId)[i].id = turns[t].assistantMessageId}

PlaceholderOf(t) == MessagesOf(turns[t].sessionId)[CHOOSE i \in PlaceholderAt(t) : TRUE]

\* This step is a call of handleSend for session s: by the user, or by the
\* timer processQueue set.
HandleSendCalled(s) ==
  \/ submitted' = submitted + 1 /\ activeSessionId = s
  \/ timers # <<>> /\ Len(timers') < Len(timers) /\ Head(timers).closure.sessionId = s

\* This step is a call of handleAbort.
HandleAbortCalled == aborts' = aborts + 1

\* This step is a callback of turn t's stream: onMessage, onDone or onError.
StreamCallback(t) ==
  /\ t \in DOMAIN turns
  /\ turns[t].phase = "stream"
  /\ \/ turns'[t].handled = turns[t].handled + 1
     \/ turns'[t].endedBy \in {"done", "error"}

\* The submission a user message came from.
PromptOf(m) == CHOOSE n \in 1..submitted : PromptText(n) = m.content

\* C1: at most one turn per session is in flight (past the busy check, upload or
\* stream still going) at any time.
C1_OneTurnInFlight == \A s \in SessionIds : Cardinality(TurnsInFlight(s)) <= 1

\* C2: handleSend on a busy session appends the request to the tail of that
\* session's queue and changes nothing else: messages, busy flags, agent session
\* ids, the Active Task reference, the abort handle and the turns (no stream is
\* opened) stay as they are.
C2_BusySendOnlyQueues ==
  [][\A s \in SessionIds :
       (IsSessionLoading(loadingSessionIds, s) /\ HandleSendCalled(s)) =>
         /\ Len(messageQueues'[s]) = Len(messageQueues[s]) + 1
         /\ SubSeq(messageQueues'[s], 1, Len(messageQueues[s])) = messageQueues[s]
         /\ \A x \in SessionIds \ {s} : messageQueues'[x] = messageQueues[x]
         /\ messages' = messages
         /\ loadingSessionIds' = loadingSessionIds
         /\ sessions' = sessions
         /\ activeTaskRef' = activeTaskRef
         /\ abortRef' = abortRef
         /\ turns' = turns]_vars

\* C2 witness: a request sits in the queue of a busy session whose Active Task is open.
C2_Witness ==
  \E s \in SessionIds :
    /\ IsSessionLoading(loadingSessionIds, s)
    /\ Len(messageQueues[s]) > 0
    /\ activeTaskRef # Absent

\* C3: as long as no abort has occurred, the user messages of a session stand in
\* the order their prompts were submitted.
C3_SubmissionOrder ==
  aborts = 0 =>
    \A s \in SessionIds : \A i, j \in 1..Len(MessagesOf(s)) :
      (i < j /\ MessagesOf(s)[i].role = "user" /\ MessagesOf(s)[j].role = "user")
        => PromptOf(MessagesOf(s)[i]) < PromptOf(MessagesOf(s)[j])

\* A turn has ended: it handled a result message, its stream reported done or
\* an error, or handleAbort aborted its stream.
TurnEnded(t) == turns[t].gotResult \/ turns[t].endedBy \in {"done", "error", "abort"}

\* C4: every ended turn's placeholder has isStreaming = false and an endTime.
C4_EndedTurnsFinalized ==
  \A t \in DOMAIN turns :
    (TurnEnded(t) /\ PlaceholderAt(t) # {}) =>
      (~PlaceholderOf(t).isStreaming /\ PlaceholderOf(t).endTime > 0)

\* C5: a turn that opened a stream has exactly one placeholder, whose endTime is
\* written at most once, and exactly once by the time the turn has ended.
C5_FinalizedExactlyOnce ==
  \A t \in DOMAIN turns :
    turns[t].assistantMessageId # <<>> =>
      /\ Cardinality(PlaceholderAt(t)) = 1
      /\ PlaceholderOf(t).endTime <= 1
      /\ TurnEnded(t) => PlaceholderOf(t).endTime = 1

\* The text of one assistant payload, and of a sequence of them in arrival order.
PayloadText(v) ==
  IF v.kind = "array"
  THEN JoinText(SelectSeq(v.blocks, LAMBDA b : b.type = "text"))
  ELSE v.text

RECURSIVE Concatenation(_)
Concatenation(payloads) ==
  IF payloads = <<>> THEN <<>>
  ELSE PayloadText(Head(payloads)) \o Concatenation(Tail(payloads))

\* C6: while no error has been reported for a turn, its placeholder's content is
\* the concatenation of the text payloads handled so far, in arrival order; so it
\* is at the end of a turn that ends without an error.
C6_ContentIsConcatenation ==
  \A t \in DOMAIN turns :
    (turns[t].endedBy # "error" /\ PlaceholderAt(t) # {}) =>
      PlaceholderOf(t).content = Concatenation(turns[t].contents)

\* C6 witness: a turn ended by the done marker after two text payloads with a
\* tool message in between.
C6_Witness ==
  \E t \in DOMAIN turns :
    /\ turns[t].endedBy = "done"
    /\ Len(turns[t].contents) >= 2
    /\ PlaceholderOf(t).content = <<"a", "b">>
    /\ \E i \in 1..Len(MessagesOf(turns[t].sessionId)) :
         MessagesOf(turns[t].sessionId)[i].role \in {"tool", "task"}

\* C7: once a tool message holds a result (any payload, the empty string
\* included), no step changes that message's toolResult.
C7_ToolResultWrittenOnce ==
  [][\A s \in DOMAIN messages : \A i \in 1..Len(messages[s]) :
       (messages[s][i].role = "tool" /\ messages[s][i].toolResult.kind # "undefined")
         => messages'[s][i].toolResult = messages[s][i].toolResult]_vars

\* The Active Task reference names a task message of session s.
ActiveTaskIn(s) ==
  /\ activeTaskRef # Absent
  /\ \E i \in 1..Len(MessagesOf(s)) : MessagesOf(s)[i].id = activeTaskRef[1].messageId

\* C8: right after handleAbort on a session with a turn in flight and an open
\* Active Task, the task message is not loading, has an end time and no
\* taskResult, the Active Task reference is empty, the session is not busy and
\* its queue is empty.
C8_AbortClosesTaskAndQueue ==
  [][(HandleAbortCalled /\ TurnsInFlight(activeSessionId) # {} /\ ActiveTaskIn(activeSessionId)) =>
       /\ \A i \in 1..Len(messages'[activeSessionId]) :
            messages'[activeSessionId][i].id = activeTaskRef[1].messageId =>
              /\ ~messages'[activeSessionId][i].isTaskLoading
              /\ messages'[activeSessionId][i].taskEndTime > 0
              /\ messages'[activeSessionId][i].taskResult = Absent
       /\ \E i \in 1..Len(messages'[activeSessionId]) :
            messages'[activeSessionId][i].id = activeTaskRef[1].messageId
       /\ activeTaskRef' = Absent
       /\ ~IsSessionLoading(loadingSessionIds', activeSessionId)
       /\ messageQueues'[activeSessionId] = <<>>]_vars

\* C8 witness: only a Task call was delivered, no stream reported done or an
\* error, and after an abort with a prompt queued the task message is closed
\* without a result.
C8_Witness ==
  /\ aborts = 1
  /\ delivered = 1
  /\ cancelled # {}
  /\ \A t \in DOMAIN turns : turns[t].endedBy \in {"", "abort"}
  /\ activeTaskRef = Absent
  /\ \E i \in 1..Len(MessagesOf(activeSessionId)) :
       /\ MessagesOf(activeSessionId)[i].role = "task"
       /\ ~MessagesOf(activeSessionId)[i].isTaskLoading
       /\ MessagesOf(activeSessionId)[i].taskEndTime > 0
       /\ MessagesOf(activeSessionId)[i].taskResult = Absent

\* C9: a prompt that was queued when its session's turn was aborted is never
\* dispatched: no user message for it is ever appended.
C9_CancelledNeverDispatched ==
  \A s \in DOMAIN messages : \A i \in 1..Len(messages[s]) :
    messages[s][i].role = "user" => \A p \in cancelled : messages[s][i].content # PromptText(p)

\* C9 witness: after an abort that cancelled prompt p, a prompt submitted later
\* ran to its done marker, so the queue was processed again.
C9_Witness ==
  \E p \in cancelled : \E t \in DOMAIN turns : t > p /\ turns[t].endedBy = "done"

\* C10: once handleAbort was called for the session of an in-flight turn, no
\* callback of that turn's stream changes the messages, the busy flags or the queues.
C10_NoMutationAfterAbort ==
  [][\A t \in DOMAIN turns :
       (turns[t].abortRequested /\ StreamCallback(t)) =>
         /\ messages' = messages
         /\ loadingSessionIds' = loadingSessionIds
         /\ messageQueues' = messageQueues]_vars

\* This step starts, finishes or aborts a turn of session b: handleSend or
\* handleAbort is called for b, or a stream of b reports done or an error.
TurnStepOf(b) ==
  \/ HandleSendCalled(b)
  \/ HandleAbortCalled /\ activeSessionId = b
  \/ \E t \in DOMAIN turns :
       /\ turns[t].sessionId = b
       /\ turns[t].phase = "stream"
       /\ turns'[t].endedBy \in {"done", "error"}

\* C11: a step that starts, finishes or aborts a turn of session b leaves alone
\* every other session a with a turn streaming: the Active Task reference if it
\* names a task of a, the abort handle if it is that of a's turn (which is not
\* aborted), a's messages and a's busy flag.
C11_SessionsDoNotInterfere ==
  [][\A a, b \in SessionIds : \A t \in DOMAIN turns :
       (a # b /\ TurnStepOf(b) /\ turns[t].sessionId = a /\ turns[t].phase = "stream") =>
         /\ ActiveTaskIn(a) => activeTaskRef' = activeTaskRef
         /\ abortRef = t => (abortRef' = t /\ turns'[t].phase = "stream")
         /\ MessagesOf(a) = GetMessages(messages', a)
         /\ IsSessionLoading(loadingSessionIds, a) = IsSessionLoading(loadingSessionIds', a)]_vars

\* C12: once a session's agent session id is recorded, no step changes it.
C12_AgentIdSetOnce ==
  [][\A s \in SessionIds :
       GetAgentSessionId(sessions, s) # None =>
         GetAgentSessionId(sessions', s) = GetAgentSessionId(sessions, s)]_vars

\* This step opens the stream of turn t.
StreamOpens(t) ==
  /\ t \in DOMAIN turns'
  /\ turns'[t].phase = "stream"
  /\ (t \in DOMAIN turns => turns[t].phase = "upload")

\* C13: a turn that opens its stream while its session has an agent session id
\* stored sends exactly that id as the resume id.
C13_StoredIdIsResumed ==
  [][\A t \in 1..MaxPrompts :
       (StreamOpens(t) /\ GetAgentSessionId(sessions, turns'[t].sessionId) # None) =>
         turns'[t].agentSessionId = GetAgentSessionId(sessions, turns'[t].sessionId)]_vars

\* This step is onMessage of turn t handling a message of the given type.
Handles(t, type) ==
  /\ t \in DOMAIN turns
  /\ turns'[t].handled = turns[t].handled + 1
  /\ turns'[t].last = type

\* The content reads "Error: ...", as onError writes it.
IsErrorDescription(content) == content # <<>> /\ Head(content) = "Error: "

\* C14: when onMessage handles a message of type "error", the turn's placeholder
\* has an error description as content, is not streaming and has an endTime, and
\* the Active Task reference is empty.
C14_ErrorEventClosesPlaceholder ==
  [][\A t \in DOMAIN turns :
       Handles(t, "error") =>
         LET list == GetMessages(messages', turns[t].sessionId) IN
         /\ \A i \in 1..Len(list) :
              list[i].id = turns[t].assistantMessageId =>
                /\ IsErrorDescription(list[i].content)
                /\ ~list[i].isStreaming
                /\ list[i].endTime > 0
         /\ activeTaskRef' = Absent]_vars

\* This step is the upload of turn t failing.
UploadFails(t) ==
  /\ t \in DOMAIN turns
  /\ turns[t].phase = "upload"
  /\ turns'[t].endedBy = "uploadFailed"

\* C15: when the upload of a turn fails, its session's list grows by exactly one
\* message, of role system, telling the failure; no turn opens a stream, the
\* turn is over without a placeholder, the session is not busy, and the head of
\* the session's queue (if any) leaves the queue for a timer that will send it.
C15_UploadFailure ==
  [][\A t \in 1..MaxPrompts :
       UploadFails(t) =>
         LET s == turns[t].sessionId
             before == MessagesOf(s)
             after == GetMessages(messages', s)
         IN /\ Len(after) = Len(before) + 1
            /\ SubSeq(after, 1, Len(before)) = before
            /\ after[Len(after)].role = "system"
            /\ Head(after[Len(after)].content) = "File upload failed: "
            /\ \A x \in SessionIds \ {s} : GetMessages(messages', x) = MessagesOf(x)
            /\ DOMAIN turns' = DOMAIN turns
            /\ \A x \in DOMAIN turns : turns'[x].phase = "stream" => turns[x].phase = "stream"
            /\ turns'[t].phase = "closed"
            /\ turns'[t].assistantMessageId = <<>>
            /\ ~IsSessionLoading(loadingSessionIds', s)
            /\ IF messageQueues[s] = <<>>
               THEN messageQueues' = messageQueues /\ timers' = timers
               ELSE /\ messageQueues'[s] = Tail(messageQueues[s])
                    /\ Len(timers') = Len(timers) + 1
                    /\ SubSeq(timers', 1, Len(timers)) = timers
                    /\ timers'[Len(timers')].msg = Head(messageQueues[s])
                    /\ timers'[Len(timers')].closure.sessionId = s]_vars

\* C15 witness: an upload failed while a prompt was queued, and that prompt's
\* user message now follows the system message; the failed turn has neither a
\* user message nor a placeholder.
C15_Witness ==
  \E t \in DOMAIN turns :
    /\ turns[t].endedBy = "uploadFailed"
    /\ LET list == MessagesOf(turns[t].sessionId) IN
       /\ Len(list) >= 2
       /\ list[1].role = "system"
       /\ list[2].role = "user"
       /\ list[2].content = PromptText(t + 1)
       /\ \A i \in 1..Len(list) : list[i].content # PromptText(t)

\* This step is onMessage handling a tool_call named Task: a new task message
\* becomes the Active Task.
TaskOpens ==
  /\ \E t \in DOMAIN turns : Handles(t, "tool_call")
  /\ activeTaskRef' # Absent
  /\ (activeTaskRef # Absent => activeTaskRef'[1].messageId # activeTaskRef[1].messageId)

\* C16: when a Task call is handled while a task is active, the message of the
\* previous task is left with isTaskLoading = false, an end time and the tool
\* count the reference held, and stands before the new task message; and no step
\* turns the isTaskLoading of a task message from false to true.
C16_PreviousTaskClosedFirst ==
  [][/\ (TaskOpens /\ activeTaskRef # Absent) =>
          \A s \in DOMAIN messages' : \A i \in 1..Len(messages'[s]) :
            messages'[s][i].id = activeTaskRef[1].messageId =>
              /\ ~messages'[s][i].isTaskLoading
              /\ messages'[s][i].taskEndTime > 0
              /\ messages'[s][i].taskToolCount = activeTaskRef[1].toolCount
              /\ \A j \in 1..Len(messages'[s]) :
                   messages'[s][j].id = activeTaskRef'[1].messageId => i < j
     /\ \A s \in DOMAIN messages : \A i \in 1..Len(messages[s]) :
          (messages[s][i].role = "task" /\ ~messages[s][i].isTaskLoading)
            => ~messages'[s][i].isTaskLoading]_vars

\* The text of a tool result payload.
ResultText(v) == IF v.kind \in {"array", "jsonArray"} THEN JoinText(v.blocks) ELSE v.text

\* The messages of a role, in list order.
OfRole(list, role) == SelectSeq(list, LAMBDA m : m.role = role)

\* C17: when the scenario (Task call, k tool calls each followed by its result,
\* the task's result with payload P, result message) has been delivered, the
\* list holds one task message with taskToolCount = k, isTaskLoading = false and
\* taskResult = the text of P, and k tool messages, the i-th holding the i-th
\* result.
C17_TaskScenario ==
  (script # NoScript /\ script.todo = <<>>) =>
    LET tasks == OfRole(MessagesOf("s1"), "task")
        tools == OfRole(MessagesOf("s1"), "tool")
    IN /\ Len(tasks) = 1
       /\ tasks[1].taskToolCount = script.k
       /\ ~tasks[1].isTaskLoading
       /\ tasks[1].taskResult = Present(ResultText(script.payload))
       /\ Len(tools) = script.k
       /\ \A i \in 1..script.k : tools[i].toolResult = script.results[i]

\* C17 witness: the scenario with two tool calls, the first with an empty
\* result, and a stringified block array as the task's payload, ended by done.
C17_Witness ==
  /\ script.k = 2
  /\ script.todo = <<>>
  /\ script.results = <<Str(<<>>), Str(<<"y">>)>>
  /\ script.payload.kind = "jsonArray"
  /\ turns[1].endedBy = "done"
  /\ OfRole(MessagesOf("s1"), "task")[1].taskResult = Present(<<"f", "g">>)

\* C18: a task message that is not loading stays as it is: no step sets
\* isTaskLoading again or changes its end time, its tool count or its result.
C18_TaskClosedOnce ==
  [][\A s \in DOMAIN messages : \A i \in 1..Len(messages[s]) :
       (messages[s][i].role = "task" /\ ~messages[s][i].isTaskLoading) =>
         /\ ~messages'[s][i].isTaskLoading
         /\ messages'[s][i].taskEndTime = messages[s][i].taskEndTime
         /\ messages'[s][i].taskToolCount = messages[s][i].taskToolCount
         /\ messages'[s][i].taskResult = messages[s][i].taskResult]_vars

\* C18 witness: a task was closed by an assistant message, then its own
\* tool_result arrived and the stream reported done; the task message has its
\* end time written once and no result.
C18_Witness ==
  /\ turns[1].endedBy = "done"
  /\ turns[1].handled >= 3
  /\ turns[1].last = "tool_result"
  /\ turns[1].contents # <<>>
  /\ \E i \in 1..Len(MessagesOf("s1")) :
       /\ MessagesOf("s1")[i].role = "task"
       /\ ~MessagesOf("s1")[i].isTaskLoading
       /\ MessagesOf("s1")[i].taskEndTime = 1
       /\ MessagesOf("s1")[i].taskResult = Absent

\* This step is the done callback of turn t.
DoneCalled(t) ==
  /\ t \in DOMAIN turns
  /\ turns[t].phase = "stream"
  /\ turns'[t].endedBy = "done"

\* C19: when a result message or the done callback is handled for a turn whose
\* placeholder is already finalized, the placeholder's content stays as it was.
C19_TerminalReplayKeepsContent ==
  [][\A t \in DOMAIN turns :
       (/\ PlaceholderAt(t) # {}
        /\ ~PlaceholderOf(t).isStreaming
        /\ PlaceholderOf(t).endTime > 0
        /\ (Handles(t, "result") \/ DoneCalled(t)))
         => \A i \in PlaceholderAt(t) :
              messages'[turns[t].sessionId][i].content = PlaceholderOf(t).content]_vars

\* C19 witness: after some text, two result messages and the done callback
\* were handled: the placeholder was finalized three times and holds the text.
C19_Witness ==
  /\ turns[1].endedBy = "done"
  /\ turns[1].gotResult
  /\ PlaceholderOf(1).endTime = 3
  /\ PlaceholderOf(1).content = <<"a">>

\* Turn t is finalized: its session is not busy and its placeholder is not streaming.
Finalized(t) ==
  /\ t \in DOMAIN turns
  /\ ~IsSessionLoading(loadingSessionIds, turns[t].sessionId)
  /\ PlaceholderAt(t) # {}
  /\ ~PlaceholderOf(t).isStreaming

\* C20: if the transport stops in the end (done marker, error or end of the
\* body), every turn that set the busy flag is finalized in the end, unless the
\* user aborts.
C20_EveryTurnFinalized ==
  \A t \in 1..MaxPrompts : (t \in DOMAIN turns) ~> (Finalized(t) \/ aborts > 0)

\* C21: every tool call of a query is decided as the sandbox check decides it:
\* a tool off the allowed list is denied, and so is a Read, Write, Edit, Glob or
\* Grep whose path resolves outside the working directory.
C21_SandboxOnEveryToolCall ==
  agentCall # NoCall =>
    /\ agentCall.tool \notin ALLOWED_TOOLS => agentCall.behavior = "deny"
    /\ LET filePath == GetPathFromToolInput(agentCall.tool, agentCall.input) IN
       (filePath # Absent /\ ~IsPathAllowed(filePath[1], Cwd)) => agentCall.behavior = "deny"

\* This step is onMessage of turn t handling a tool_result that is not the
\* Active Task's own: there is no Active Task, or its toolId is another one.
HandlesOtherResult(t) ==
  /\ Handles(t, "tool_result")
  /\ ~(activeTaskRef # Absent /\ turns'[t].event.toolId = activeTaskRef[1].toolId)

\* The positions of the tool messages of a list that hold no result.
WithoutResult(list) ==
  {i \in 1..Len(list) : list[i].role = "tool" /\ list[i].toolResult.kind = "undefined"}

\* C22: a tool_result that is not the Active Task's own sets the toolResult of
\* the newest tool message of the session that holds no result to the event's
\* payload, and changes nothing else (messages, Active Task reference, busy
\* flags, queues); when every tool message holds a result, or there is none,
\* the messages are unchanged too.
C22_FallbackToNewestOpenTool ==
  [][\A t \in DOMAIN turns :
       HandlesOtherResult(t) =>
         LET s == turns[t].sessionId
             open == WithoutResult(MessagesOf(s))
         IN /\ messages' =
                 IF open = {} THEN messages
                 ELSE [messages EXCEPT
                         ![s][CHOOSE i \in open : \A j \in open : j <= i].toolResult =
                            turns'[t].event.toolResult]
            /\ activeTaskRef' = activeTaskRef
            /\ loadingSessionIds' = loadingSessionIds
            /\ messageQueues' = messageQueues]_vars

\* This step is onMessage of turn t handling the tool_result of the task
\* message with that id: the task is the Active Task, still loading, and the
\* event carries the toolId of the call that opened it.
HandlesTaskResult(t, id) ==
  /\ Handles(t, "tool_result")
  /\ activeTaskRef # Absent
  /\ activeTaskRef[1].messageId = id
  /\ turns'[t].event.toolId = activeTaskRef[1].toolId

\* C23: a step that changes the taskResult of a task message is onMessage
\* handling a tool_result with the toolId of the call that opened that task,
\* while the task is the Active Task and still loading; and a message is never
\* appended with a taskResult.  So completing a task on an assistant message, a
\* new Task call, a result message, an error, done or abort assigns none.
C23_TaskResultOnlyFromItsResult ==
  [][\A s \in DOMAIN messages' : \A i \in 1..Len(messages'[s]) :
       IF i > Len(GetMessages(messages, s))
       THEN messages'[s][i].taskResult = Absent
       ELSE messages'[s][i].taskResult # messages[s][i].taskResult =>
              /\ messages[s][i].role = "task"
              /\ messages[s][i].isTaskLoading
              /\ \E t \in DOMAIN turns : HandlesTaskResult(t, messages[s][i].id)]_vars

\* C23 witness: one task was closed by a second Task call and has no result;
\* the second got its own tool_result and holds its text; then the user aborted.
C23_Witness ==
  /\ aborts = 1
  /\ LET tasks == OfRole(MessagesOf("s1"), "task") IN
     /\ Len(tasks) = 2
     /\ ~tasks[1].isTaskLoading /\ tasks[1].taskResult = Absent
     /\ ~tasks[2].isTaskLoading /\ tasks[2].taskResult = Present(<<"x">>)
\* This step is onMessage of turn t handling a message of a type it does not
\* know, or the transport dropping a data line of t's stream that did not parse.
HandlesUnrecognized(t) ==
  /\ t \in DOMAIN turns
  /\ turns'[t].handled = turns[t].handled + 1
  /\ turns'[t].event.type \notin {"tool_call", "tool_result", "assistant", "result"}

DropsMalformed(t) ==
  /\ t \in DOMAIN turns
  /\ turns'[t].handled = turns[t].handled
  /\ delivered' = delivered + 1
  /\ turns'[t].last = "malformed"

\* C24: a message of an unrecognized type, and a data line that does not parse,
\* leave the messages, the busy flags, the queues and the Active Task reference
\* as they are, and the stream stays open.
C24_UnrecognizedIsNoOp ==
  [][\A t \in DOMAIN turns :
       (HandlesUnrecognized(t) \/ DropsMalformed(t)) =>
         /\ messages' = messages
         /\ loadingSessionIds' = loadingSessionIds
         /\ messageQueues' = messageQueues
         /\ activeTaskRef' = activeTaskRef
         /\ turns'[t].phase = "stream"]_vars

\* C24 witness: with a task open, an error message was
\* handled and then a malformed line was dropped; the turn is still streaming,
\* the session busy, the task loading.
C24_Witness ==
  /\ turns[1].event.type = "error"
  /\ turns[1].last = "malformed"
  /\ turns[1].phase = "stream"
  /\ IsSessionLoading(loadingSessionIds, "s1")
  /\ activeTaskRef # Absent
  /\ PlaceholderOf(1).isStreaming
  /\ \E i \in 1..Len(MessagesOf("s1")) :
       MessagesOf("s1")[i].role = "task" /\ MessagesOf("s1")[i].isTaskLoading
\* C25: a step never stores a message for a session id the store does not
\* know: such an id gets no message list, and a list it has does not grow.
C25_AddMessageUnknownIsNoOp ==
  [][\A s \in SessionIds :
       s \notin DOMAIN sessions =>
         /\ s \in DOMAIN messages' => s \in DOMAIN messages
         /\ Len(GetMessages(messages', s)) = Len(GetMessages(messages, s))]_vars

\* C30: the store holds no messages for a session that was deleted.
C30_NoMessagesAfterDelete ==
  \A s \in SessionIds : s \notin DOMAIN sessions => s \notin DOMAIN messages
\* This step is the stream of turn t ending: its done or its error callback.
StreamEnds(t) ==
  /\ t \in DOMAIN turns
  /\ turns[t].phase = "stream"
  /\ turns'[t].endedBy \in {"done", "error"}

\* C26: when a stream ends, by done or by an error, its session is not busy
\* afterwards, the abort handle is released, and the queue is processed once:
\* the head of the session's queue, if any, leaves it for a timer.  So when no
\* turn is in flight the abort reference is empty.
C26_StreamEndReleasesHandle ==
  [][/\ \A t \in DOMAIN turns :
          StreamEnds(t) =>
            LET s == turns[t].sessionId IN
            /\ ~IsSessionLoading(loadingSessionIds', s)
            /\ abortRef' = 0
            /\ IF messageQueues[s] = <<>>
               THEN messageQueues' = messageQueues /\ timers' = timers
               ELSE /\ messageQueues'[s] = Tail(messageQueues[s])
                    /\ Len(timers') = Len(timers) + 1
                    /\ timers'[Len(timers')].msg = Head(messageQueues[s])
     /\ (\A t \in DOMAIN turns' : turns'[t].phase = "closed") => abortRef' = 0]_vars
\* The tool_use id of the call that created a tool message: the id the engine
\* calls the tool of that name with.
CallerOf(m) ==
  (CHOOSE c \in CorrelationMessages : c.type = "tool_call" /\ c.toolName = m.toolName).toolId

\* The tool_use id of the tool_result that carried a payload.
OwnerOf(payload) ==
  (CHOOSE r \in CorrelationMessages : r.type = "tool_result" /\ r.toolResult = payload).toolId

\* C27: a result stored on a tool message is the payload of the tool_result
\* with the tool_use id of the call that created the message; so with Read and
\* Grep both outstanding each gets its own result, and the result of a task
\* that was closed early never lands on a tool message.
C27_ResultOnItsOwnCall ==
  \A s \in DOMAIN messages : \A i \in 1..Len(messages[s]) :
    (messages[s][i].role = "tool" /\ messages[s][i].toolResult.kind # "undefined") =>
      OwnerOf(messages[s][i].toolResult) = CallerOf(messages[s][i])
\* The stream of turn t is over: it reported done or an error, or was aborted.
StreamOver(t) == turns[t].endedBy \in {"done", "error", "abort"}

\* C28: when the stream of a turn is over (done, error or abort), no task
\* message that turn appended is loading.
C28_NoTaskLoadingAfterTurn ==
  \A t \in DOMAIN turns :
    StreamOver(t) =>
      \A i \in 1..Len(MessagesOf(turns[t].sessionId)) :
        MessagesOf(turns[t].sessionId)[i].id \in turns[t].tasks =>
          ~MessagesOf(turns[t].sessionId)[i].isTaskLoading
\* C29: once a turn has handled a result message, which finalizes its
\* placeholder, no step changes the placeholder's content: no later message
\* and no done or error callback of the transport.
C29_ContentFixedAfterResult ==
  [][\A t \in DOMAIN turns :
       (turns[t].gotResult /\ PlaceholderAt(t) # {}) =>
         \A i \in PlaceholderAt(t) :
           messages'[turns[t].sessionId][i].content = PlaceholderOf(t).content]_vars
====
